---- MODULE Spec2Model ----
(***************************************************************************)
(* Model of the netshit packet codec: the Ethernet frame codec              *)
(* (netshit/src/eth.rs) and the layer-3 codecs (src/layer3/ipv4.rs,         *)
(* src/layer3/arp.rs, src/layer3/mod.rs), the receive loop of the binary   *)
(* (src/main.rs) and the pseudo-terminal builder (virtser/src/lib.rs).      *)
(*                                                                         *)
(* A reader is a byte sequence with a cursor; a writer is the byte          *)
(* sequence written so far.  Every decoder is an operator from the reader   *)
(* contents to a record [res, pkt, pos]: the outcome, the value returned    *)
(* and the number of bytes consumed.  Every encoder is an operator from     *)
(* the value to the SET of outcomes [res, bytes] the builds of the crate    *)
(* can produce (an arithmetic overflow panics with overflow checks and      *)
(* wraps without them).                                                     *)
(***************************************************************************)
EXTENDS Integers, Sequences, FiniteSets, TLC

VARIABLES
    reader,   \* bytes offered to the last decode
    pos,      \* bytes the last decode consumed from the reader
    writer,   \* bytes the last encode wrote to its writer
    packet,   \* value returned by the last decode / passed to the last encode
    result,   \* "ok", "panic" or the error of the last operation
    last,     \* the last operation
    depth,    \* how many operations in a row worked on the previous one's output
    sent,     \* the value whose encoding the last decode was given
    todo,     \* the call the caller is about to make on its input, "" once made
    builder,  \* the VirtSerBuilder value the caller holds
    calls,    \* the builder methods called on it so far
    pty,      \* the termios of the master and the slave build() has opened
    buf,      \* main's receive buffer, in each of two runs of the binary
    delivered,\* the frame the device delivered to the last recv, in each run
    printed,  \* the decode outcome the last iteration printed, in each run
    received  \* iterations of the receive loop so far

codec_vars == <<reader, pos, writer, packet, result, last, depth, sent>>
virtser_vars == <<builder, calls, pty>>
main_vars == <<buf, delivered, printed, received>>

vars == <<reader, pos, writer, packet, result, last, depth, sent, todo,
          builder, calls, pty, buf, delivered, printed, received>>

----------------------------------------------------------------------------
(* Bounds of the model *)

\* longest payload of a generated IPv4 packet or stream
MaxData == 2
\* most bytes that follow a complete packet in a generated stream
MaxExtra == 1
\* longest run of operations each working on the previous one's output
MaxChain == 3
\* most setter calls made on a VirtSerBuilder before build()
MaxCalls == 2
\* most iterations of the receive loop
MaxRecv == 2

----------------------------------------------------------------------------
(* Integer and byte helpers *)

RECURSIVE BitXor(_, _)
BitXor(a, b) ==
    IF a = 0 THEN b
    ELSE IF b = 0 THEN a
    ELSE (((a % 2) + (b % 2)) % 2) + 2 * BitXor(a \div 2, b \div 2)

RECURSIVE BitOr(_, _)
BitOr(a, b) ==
    IF a = 0 THEN b
    ELSE IF b = 0 THEN a
    ELSE (IF a % 2 = 1 \/ b % 2 = 1 THEN 1 ELSE 0) + 2 * BitOr(a \div 2, b \div 2)

\* u16::to_be_bytes / write_u16
to_be_bytes16(x) == <<x \div 256, x % 256>>

\* A u32 is the pair <<high 16 bits, low 16 bits>>.
\* u32::to_be_bytes / write_u32
to_be_bytes32(x) == <<x[1] \div 256, x[1] % 256, x[2] \div 256, x[2] % 256>>

\* read_u16 on two bytes
from_be_bytes16(b) == b[1] * 256 + b[2]

\* read_u32 on four bytes
from_be_bytes32(b) == <<b[1] * 256 + b[2], b[3] * 256 + b[4]>>

\* the bytes of s from index a (1-based) of length n
Slice(s, a, n) == SubSeq(s, a, a + n - 1)

\* a deterministic filler byte for position i of a generated payload
FillByte(i) == (i * 37 + 3) % 256

Fill(n) == [i \in 1..n |-> FillByte(i)]

Zeros(n) == [i \in 1..n |-> 0]

NoPacket == [tag |-> "none"]

\* a failed decode: no value, cursor at c
Fail(err, c) == [res |-> err, pkt |-> NoPacket, pos |-> c]

----------------------------------------------------------------------------
(* internet_checksum::Checksum as used by the IPv4 codec *)

\* Checksum::new()
NewChecksum == [sum |-> 0, trailing |-> -1]

\* one's-complement addition of a 16-bit word with end-around carry
AddWord(sum, w) == IF sum + w > 65535 THEN sum + w - 65535 ELSE sum + w

\* Checksum::add_bytes: an odd trailing byte is kept and paired with the
\* first byte of the next call
RECURSIVE add_bytes(_, _)
add_bytes(h, bytes) ==
    IF Len(bytes) = 0 THEN h
    ELSE IF h.trailing # -1
         THEN add_bytes([sum |-> AddWord(h.sum, h.trailing * 256 + bytes[1]),
                         trailing |-> -1], Tail(bytes))
    ELSE IF Len(bytes) = 1 THEN [sum |-> h.sum, trailing |-> bytes[1]]
    ELSE add_bytes([sum |-> AddWord(h.sum, bytes[1] * 256 + bytes[2]),
                    trailing |-> -1], SubSeq(bytes, 3, Len(bytes)))

\* Checksum::checksum: pad a trailing byte with zero, complement
checksum(h) ==
    LET s == IF h.trailing # -1 THEN AddWord(h.sum, h.trailing * 256) ELSE h.sum
    IN  to_be_bytes16(65535 - s)

----------------------------------------------------------------------------
(* src/layer3/ipv4.rs *)

MIN_HEADER_LENGTH == 20
DONT_FRAGMENT == 2

\* HeaderLengthOf with the illegal range written 1..4 exclusive of 4
HeaderLengthOfAcceptsFour(ihl) ==
    IF ihl = 0 THEN 20
    ELSE IF ihl \in 1..3 THEN 0
    ELSE 4 * ihl

\* HeaderLengthOf taking every IHL of 5 or more for the minimum header
HeaderLengthOfIgnoresOptions(ihl) ==
    IF ihl = 0 THEN 20
    ELSE IF ihl \in 1..4 THEN 0
    ELSE 20

\* the match on the IHL nibble: 0 for the illegal values 1..4
HeaderLengthOf(ihl) ==
    IF ihl = 0 THEN MIN_HEADER_LENGTH
    ELSE IF ihl \in 1..4 THEN 0
    ELSE 4 * ihl

\* flags_and_frag_offset != DONT_FRAGMENT << 13 bails
FlagsSupported(f) == f = DONT_FRAGMENT * 8192

\* ChecksumValid with the comparison left out
ChecksumValidAlways(h) == TRUE

\* hasher.checksum() != [0, 0] bails
ChecksumValid(h) == checksum(h) = <<0, 0>>

\* Ipv4Packet::from_reader
Ipv4Packet_from_reader(s) ==
    LET n == Len(s) IN
    IF n < 1 THEN Fail("UnexpectedEof", n) ELSE
    LET byte0   == s[1]
        h1      == add_bytes(NewChecksum, <<byte0>>)
        version == byte0 \div 16
        nibble  == byte0 % 16
    IN
    IF version # 4 THEN Fail("Ipv4NotIpv4", 1) ELSE
    IF HeaderLengthOf(nibble) = 0 THEN Fail("Ipv4InvalidIhl", 1) ELSE
    LET ihl == HeaderLengthOf(nibble) IN
    IF n < 2 THEN Fail("UnexpectedEof", n) ELSE
    LET byte1 == s[2]
        h2    == add_bytes(h1, <<byte1>>)
        dscp  == byte1 \div 4
        ecn   == byte1 % 4
    IN
    IF n < 4 THEN Fail("UnexpectedEof", n) ELSE
    LET total_length == from_be_bytes16(Slice(s, 3, 2)) IN
    IF total_length < ihl THEN Fail("Ipv4BadLength", 4) ELSE
    LET h3 == add_bytes(h2, to_be_bytes16(total_length)) IN
    IF n < 6 THEN Fail("UnexpectedEof", n) ELSE
    LET identification == from_be_bytes16(Slice(s, 5, 2))
        h4 == add_bytes(h3, to_be_bytes16(identification))
    IN
    IF n < 8 THEN Fail("UnexpectedEof", n) ELSE
    LET flags_and_frag_offset == from_be_bytes16(Slice(s, 7, 2))
        h5 == add_bytes(h4, to_be_bytes16(flags_and_frag_offset))
    IN
    IF ~FlagsSupported(flags_and_frag_offset) THEN Fail("Ipv4Fragmenting", 8) ELSE
    IF n < 9 THEN Fail("UnexpectedEof", n) ELSE
    LET ttl == s[9]
        h6  == add_bytes(h5, <<ttl>>)
    IN
    IF total_length < ihl THEN Fail("Ipv4BadLength", 9) ELSE
    IF n < 10 THEN Fail("UnexpectedEof", n) ELSE
    LET protocol == s[10]
        h7 == add_bytes(h6, <<protocol>>)
    IN
    IF n < 12 THEN Fail("UnexpectedEof", n) ELSE
    LET header_checksum == from_be_bytes16(Slice(s, 11, 2))
        h8 == add_bytes(h7, to_be_bytes16(header_checksum))
    IN
    IF n < 16 THEN Fail("UnexpectedEof", n) ELSE
    LET source == from_be_bytes32(Slice(s, 13, 4))
        h9 == add_bytes(h8, to_be_bytes32(source))
    IN
    IF n < 20 THEN Fail("UnexpectedEof", n) ELSE
    LET destination == from_be_bytes32(Slice(s, 17, 4))
        h10 == add_bytes(h9, to_be_bytes32(destination))
    IN
    IF ihl > MIN_HEADER_LENGTH
    THEN IF n < ihl THEN Fail("UnexpectedEof", n)
         ELSE Fail("Ipv4OptionsNotSupported", ihl)
    ELSE
    IF ~ChecksumValid(h10) THEN Fail("Ipv4InvalidChecksum", 20) ELSE
    LET payload_length == total_length - ihl
        avail == IF n - 20 < payload_length THEN n - 20 ELSE payload_length
        data  == Slice(s, 21, avail)
    IN
    IF Len(data) # payload_length
    THEN Fail("Ipv4UnexpectedEndOfPayload", 20 + avail)
    ELSE [res |-> "ok",
          pkt |-> [tag |-> "ipv4", dscp |-> dscp, ecn |-> ecn,
                   identification |-> identification, ttl |-> ttl,
                   protocol |-> protocol, source |-> source,
                   destination |-> destination, data |-> data],
          pos |-> 20 + payload_length]

\* DscpEcnByte with the shift one bit short
DscpEcnByteShiftOne(dscp, ecn) == BitOr((dscp * 2) % 256, ecn)

\* (self.dscp << 2) | self.ecn on u8: the bits shifted out are lost
DscpEcnByte(dscp, ecn) == BitOr((dscp * 4) % 256, ecn)

\* TotalLengthOutcomes with the 20 header bytes left out of the sum
TotalLengthOutcomesNoHeader(len) ==
    IF len > 65535 THEN {[res |-> "TryFromIntError", val |-> 0]}
    ELSE {[res |-> "ok", val |-> len]}

\* 20u16 + u16::try_from(self.data.len())?: the outcomes are an error
\* ("err"), a panic ("panic", overflow checks on) or the value
TotalLengthOutcomes(len) ==
    IF len > 65535 THEN {[res |-> "TryFromIntError", val |-> 0]}
    ELSE IF 20 + len > 65535
         THEN {[res |-> "panic", val |-> 0],
               [res |-> "ok", val |-> (20 + len) % 65536]}
    ELSE {[res |-> "ok", val |-> 20 + len]}

\* Ipv4Packet::onto_writer
Ipv4Packet_onto_writer(p) ==
    LET w1 == <<4 * 16 + 5>>
        c1 == add_bytes(NewChecksum, w1)
    IN
    IF p.ecn > 3 THEN {[res |-> "Ipv4InvalidEcn", bytes |-> w1]} ELSE
    LET val == <<DscpEcnByte(p.dscp, p.ecn)>>
        w2  == w1 \o val
        c2  == add_bytes(c1, val)
    IN
    { IF t.res # "ok" THEN [res |-> t.res, bytes |-> w2] ELSE
      LET total_length == to_be_bytes16(t.val)
          c3 == add_bytes(c2, total_length)
          identification == to_be_bytes16(p.identification)
          c4 == add_bytes(c3, identification)
          flags == <<(DONT_FRAGMENT * 32) % 256, 0>>
          c5 == add_bytes(c4, flags)
          ttl_plus_protocol == <<p.ttl, p.protocol>>
          c6 == add_bytes(c5, ttl_plus_protocol)
          c7 == add_bytes(c6, to_be_bytes32(p.source))
          c8 == add_bytes(c7, to_be_bytes32(p.destination))
      IN  [res |-> "ok",
           bytes |-> w2 \o total_length \o identification \o flags
                     \o ttl_plus_protocol \o checksum(c8)
                     \o to_be_bytes32(p.source) \o to_be_bytes32(p.destination)
                     \o p.data]
      : t \in TotalLengthOutcomes(Len(p.data)) }

----------------------------------------------------------------------------
(* src/layer3/arp.rs *)

HW_TYPE_ETHERNET == 1
IPV4_ADDR_SIZE_BYTES == 4
\* std::mem::size_of::<Mac6>()
MAC6_SIZE == 6

\* netshit/src/eth.rs, mod ethtype
IPV4 == 2048
ARP == 2054
IPV6 == 34525

\* ArpOperation::try_from: the operation, or "" for Err
ArpOperation_try_from(value) ==
    IF value = 1 THEN "Request"
    ELSE IF value = 2 THEN "Reply"
    ELSE ""

\* ArpOperation_as_u16 with both operations given the discriminant 1
ArpOperation_as_u16AlwaysRequest(op) == 1

\* self.operation as u16 (#[repr(u16)])
ArpOperation_as_u16(op) == IF op = "Request" THEN 1 ELSE 2

\* ArpFixedFields with the protocol-length arm left out
ArpFixedFieldsNoProtocolLength(hw_type, protocol_type, hw_length, protocol_length) ==
    IF hw_type # 1 THEN "ArpHardwareType"
    ELSE IF protocol_type # 2048 THEN "ArpProtocolType"
    ELSE IF hw_length # 6 THEN "ArpHardwareLength"
    ELSE "ok"

\* the if / else-if chain on the four fixed fields: the error, or "ok"
ArpFixedFields(hw_type, protocol_type, hw_length, protocol_length) ==
    IF hw_type # HW_TYPE_ETHERNET THEN "ArpHardwareType"
    ELSE IF protocol_type # IPV4 THEN "ArpProtocolType"
    ELSE IF hw_length # MAC6_SIZE THEN "ArpHardwareLength"
    ELSE IF protocol_length # IPV4_ADDR_SIZE_BYTES THEN "ArpProtocolLength"
    ELSE "ok"

\* ArpPacket::from_reader
ArpPacket_from_reader(s) ==
    LET n == Len(s) IN
    IF n < 6 THEN Fail("UnexpectedEof", n) ELSE
    LET hw_type         == from_be_bytes16(Slice(s, 1, 2))
        protocol_type   == from_be_bytes16(Slice(s, 3, 2))
        hw_length       == s[5]
        protocol_length == s[6]
        fixed == ArpFixedFields(hw_type, protocol_type, hw_length, protocol_length)
    IN
    IF fixed # "ok" THEN Fail(fixed, 6) ELSE
    IF n < 8 THEN Fail("UnexpectedEof", n) ELSE
    LET operation == ArpOperation_try_from(from_be_bytes16(Slice(s, 7, 2))) IN
    IF operation = "" THEN Fail("ArpInvalidOperation", 8) ELSE
    IF n < 28 THEN Fail("UnexpectedEof", n) ELSE
    [res |-> "ok",
     pkt |-> [tag |-> "arp", operation |-> operation,
              sender_hw_address |-> Slice(s, 9, 6),
              sender_protocol_address |-> from_be_bytes32(Slice(s, 15, 4)),
              target_hw_address |-> Slice(s, 19, 6),
              target_protocol_address |-> from_be_bytes32(Slice(s, 25, 4))],
     pos |-> 28]

\* ArpPacket::onto_writer
ArpPacket_onto_writer(p) ==
    {[res |-> "ok",
      bytes |-> to_be_bytes16(HW_TYPE_ETHERNET) \o to_be_bytes16(IPV4)
                \o <<MAC6_SIZE>> \o <<IPV4_ADDR_SIZE_BYTES>>
                \o to_be_bytes16(ArpOperation_as_u16(p.operation))
                \o p.sender_hw_address
                \o to_be_bytes32(p.sender_protocol_address)
                \o p.target_hw_address
                \o to_be_bytes32(p.target_protocol_address)]}

----------------------------------------------------------------------------
(* src/layer3/mod.rs *)

\* Layer3Packet_onto_writer with the Unknown arm writing nothing
Layer3Packet_onto_writerDropsUnknown(p) ==
    IF p.tag = "ipv4" THEN Ipv4Packet_onto_writer(p)
    ELSE IF p.tag = "arp" THEN ArpPacket_onto_writer(p)
    ELSE {[res |-> "ok", bytes |-> <<>>]}

\* Layer3Packet::onto_writer
Layer3Packet_onto_writer(p) ==
    IF p.tag = "ipv4" THEN Ipv4Packet_onto_writer(p)
    ELSE IF p.tag = "arp" THEN ArpPacket_onto_writer(p)
    ELSE {[res |-> "ok", bytes |-> p.bytes]}

----------------------------------------------------------------------------
(* crc::Crc::<u32>::new(&crc::CRC_32_ISO_HDLC) as used by the frame encoder *)

\* the reflected polynomial 0xEDB88320
CRC32_POLY == <<60856, 33568>>
\* init and xorout 0xFFFFFFFF
CRC32_MASK == <<65535, 65535>>

Xor32(a, b) == <<BitXor(a[1], b[1]), BitXor(a[2], b[2])>>

\* crc >> 1
Shr32(a) == <<a[1] \div 2, (a[2] \div 2) + 32768 * (a[1] % 2)>>

\* k rounds of: shift right, and xor the polynomial in if a one fell out
RECURSIVE CrcShift(_, _)
CrcShift(crc, k) ==
    IF k = 0 THEN crc
    ELSE CHOOSE r \in { CrcShift(next, k - 1) :
                         next \in {IF crc[2] % 2 = 1 THEN Xor32(Shr32(crc), CRC32_POLY)
                                   ELSE Shr32(crc)} } : TRUE

\* the 256-entry table the crate builds for the algorithm
CrcTable == [b \in 0..255 |-> CrcShift(<<0, b>>, 8)]

\* crc >> 8
Shr32By8(a) == <<a[1] \div 256, (a[2] \div 256) + 256 * (a[1] % 256)>>

\* the register after bytes[i..j] have been fed to it in order (the range
\* is halved and each intermediate register is bound as a value to keep the
\* evaluation shallow; the order of the bytes is kept)
RECURSIVE CrcUpdate(_, _, _, _)
CrcUpdate(crc, bytes, i, j) ==
    IF i > j THEN crc
    ELSE IF i = j
         THEN Xor32(CrcTable[BitXor(crc[2] % 256, bytes[i])], Shr32By8(crc))
    ELSE CHOOSE r \in { CrcUpdate(left, bytes, ((i + j) \div 2) + 1, j) :
                         left \in {CrcUpdate(crc, bytes, i, (i + j) \div 2)} } : TRUE

\* Crc::checksum
Crc32(bytes) == Xor32(CrcUpdate(CRC32_MASK, bytes, 1, Len(bytes)), CRC32_MASK)

----------------------------------------------------------------------------
(* netshit/src/eth.rs *)

\* EthDispatch with the length range one too long (1..=1536)
EthDispatchOffByOne(ethtype) ==
    IF ethtype = 0 THEN "empty"
    ELSE IF ethtype \in 1..1536 THEN "length"
    ELSE IF ethtype = 2048 THEN "ipv4"
    ELSE IF ethtype = 2054 THEN "arp"
    ELSE "unknown"

\* EthDispatch with the IPv6 ethertype sent to the IPv4 arm
EthDispatchIpv6AsIpv4(ethtype) ==
    IF ethtype = 0 THEN "empty"
    ELSE IF ethtype \in 1..1535 THEN "length"
    ELSE IF ethtype \in {IPV4, IPV6} THEN "ipv4"
    ELSE IF ethtype = ARP THEN "arp"
    ELSE "unknown"

\* the arms of the match on ethtype in EthFrame::from_reader
EthDispatch(ethtype) ==
    IF ethtype = 0 THEN "empty"
    ELSE IF ethtype \in 1..1535 THEN "length"
    ELSE IF ethtype = IPV4 THEN "ipv4"
    ELSE IF ethtype = ARP THEN "arp"
    ELSE "unknown"

\* EthConsumed with the CRC behind the payload read as well
EthConsumedWithCrc(payload_pos) == 14 + payload_pos + 4

\* the bytes EthFrame::from_reader has taken from the reader when it
\* returns: the two addresses, the type/length field and what the payload
\* arm read; the read of the CRC behind the payload is commented out
EthConsumed(payload_pos) == 14 + payload_pos

\* EthFrame::from_reader
EthFrame_from_reader(s) ==
    LET n == Len(s) IN
    IF n < 14 THEN Fail("UnexpectedEof", n) ELSE
    LET dst     == Slice(s, 1, 6)
        src     == Slice(s, 7, 6)
        ethtype == from_be_bytes16(Slice(s, 13, 2))
        rest    == SubSeq(s, 15, n)
        arm     == EthDispatch(ethtype)
        sub     == IF arm = "empty"
                     THEN [res |-> "ok", pkt |-> [tag |-> "unknown", bytes |-> <<>>],
                           pos |-> 0]
                   ELSE IF arm = "length"
                     THEN IF Len(rest) < ethtype
                          THEN Fail("UnexpectedEof", Len(rest))
                          ELSE [res |-> "ok",
                                pkt |-> [tag |-> "unknown",
                                         bytes |-> Slice(rest, 1, ethtype)],
                                pos |-> ethtype]
                   ELSE IF arm = "ipv4" THEN Ipv4Packet_from_reader(rest)
                   ELSE IF arm = "arp" THEN ArpPacket_from_reader(rest)
                   ELSE Fail("EthUnknownType", 0)
    IN
    IF sub.res # "ok" THEN Fail(sub.res, 14 + sub.pos)
    ELSE [res |-> "ok",
          pkt |-> [tag |-> "eth", dst |-> dst, src |-> src,
                   ethtype |-> ethtype, payload |-> sub.pkt],
          pos |-> EthConsumed(sub.pos)]

\* EthFrameBytes with the CRC computed over the payload only
EthFrameBytesCrcOfPayload(head, payload) ==
    head \o payload \o to_be_bytes32(Crc32(payload))

\* the bytes EthFrame::onto_writer hands to writer.write_all
EthFrameBytes(head, payload) ==
    LET vec == head \o payload IN vec \o to_be_bytes32(Crc32(vec))

\* EthFrame_onto_writer writing to the sink as it goes, without the Vec
EthFrame_onto_writerUnbuffered(f) ==
    LET addrs_and_type == f.dst \o f.src \o to_be_bytes16(f.ethtype) IN
    { IF o.res # "ok" THEN [res |-> o.res, bytes |-> addrs_and_type \o o.bytes]
      ELSE [res |-> "ok", bytes |-> EthFrameBytes(addrs_and_type, o.bytes)]
      : o \in Layer3Packet_onto_writer(f.payload) }

\* EthFrame::onto_writer: the frame is assembled in a local Vec and the
\* writer receives it in one write_all, after the CRC
EthFrame_onto_writer(f) ==
    LET addrs_and_type == f.dst \o f.src \o to_be_bytes16(f.ethtype) IN
    { IF o.res # "ok" THEN [res |-> o.res, bytes |-> <<>>]
      ELSE [res |-> "ok", bytes |-> EthFrameBytes(addrs_and_type, o.bytes)]
      : o \in Layer3Packet_onto_writer(f.payload) }

----------------------------------------------------------------------------
(* virtser/src/lib.rs.  A termios is the record of what the builder's       *)
(* helpers touch: the local flags, output post-processing (one of the       *)
(* flags cfmakeraw clears outside the local flags) and the line speed.      *)

\* the termios of a pseudo-terminal openpty(None, None) has just opened:
\* the line discipline's default, a cooked terminal with ECHO on
DefaultTermios ==
    [lflags |-> {"ISIG", "ICANON", "ECHO", "ECHOE", "ECHOK", "IEXTEN"},
     opost |-> TRUE,
     speed |-> "B38400"]

NoPty == [tag |-> "none"]

\* VirtSerBuilder::new
VirtSerBuilder_new ==
    [tag |-> "VirtSerBuilder", baud_rate |-> "B115200", echo |-> FALSE, raw |-> TRUE]

\* nix::sys::termios::cfmakeraw
cfmakeraw(termios) ==
    [termios EXCEPT !.lflags = @ \ {"ECHO", "ECHONL", "ICANON", "ISIG", "IEXTEN"},
                    !.opost = FALSE]

\* fn set_baud_rate
set_baud_rate(termios, baud) == [termios EXCEPT !.speed = baud]

\* fn set_echo: ECHO is removed when echo is false, and nothing is changed
\* when it is true
set_echo(termios, echo) ==
    IF ~echo THEN [termios EXCEPT !.lflags = @ \ {"ECHO"}] ELSE termios

\* fn set_raw
set_raw(termios, raw) == IF raw THEN cfmakeraw(termios) ELSE termios

----------------------------------------------------------------------------
(* src/main.rs *)

\* let mut buf = [0; 4096]
BUF_SIZE == 4096

\* dev.recv(&mut buf): the frame is copied to the front of the buffer and
\* the bytes behind it stay as they were; the length recv returns is dropped
recv(b, frame) == frame \o SubSeq(b, Len(frame) + 1, Len(b))

\* what one iteration prints: the outcome of EthFrame::from_reader on the
\* whole buffer, buf.as_slice()
decode_and_print(b) ==
    LET d == EthFrame_from_reader(b) IN [res |-> d.res, pkt |-> d.pkt]

----------------------------------------------------------------------------
(* Inputs: the byte streams handed to the decoders and the values handed   *)
(* to the encoders, as the crate's tests hand them (raw.as_slice(), a       *)
(* struct literal).                                                         *)

\* RFC 1071 in one pass over a whole byte sequence: the sum of its 16-bit
\* big-endian words (an odd last byte padded with zero), carries folded in,
\* complemented
RECURSIVE WordSum(_, _)
WordSum(bytes, i) ==
    IF i > Len(bytes) THEN 0
    ELSE (bytes[i] * 256 + (IF i + 1 <= Len(bytes) THEN bytes[i + 1] ELSE 0))
         + WordSum(bytes, i + 2)

RECURSIVE FoldCarries(_)
FoldCarries(x) == IF x > 65535 THEN FoldCarries((x % 65536) + (x \div 65536)) ELSE x

InternetChecksum(bytes) == 65535 - FoldCarries(WordSum(bytes, 1))

AddrA == <<258, 772>>      \* 1.2.3.4
AddrB == <<1286, 1800>>    \* 5.6.7.8
AddrC == <<57344, 251>>    \* 224.0.0.251
MacA == <<1, 2, 3, 4, 5, 6>>
MacB == <<54, 31, 184, 168, 27, 197>>

\* a 20-byte IPv4 header with the given field values
Ipv4HeaderBytes(b0, b1, tl, id, fl, ttl, proto, ck, src, dst) ==
    <<b0, b1>> \o to_be_bytes16(tl) \o to_be_bytes16(id) \o to_be_bytes16(fl)
    \o <<ttl, proto>> \o to_be_bytes16(ck) \o to_be_bytes32(src) \o to_be_bytes32(dst)

\* the checksum fields tried for a header: the right one, the right one
\* plus one, and 0xFFFF (the other representation of zero)
ChecksumChoices(b0, b1, tl, id, fl, ttl, proto, src, dst) ==
    LET good == InternetChecksum(Ipv4HeaderBytes(b0, b1, tl, id, fl, ttl, proto, 0, src, dst))
    IN  {good, (good + 1) % 65536, 65535}

VerIhlSet == {69, 64, 65, 68, 70, 79, 101}
DscpEcnSet == {0, 185}
TotalLengthSet == {19, 20, 24, 60} \cup {20 + k : k \in 1..MaxData}
IdSet == {4660, 10950}
FlagsSet == {16384, 0, 8192, 16385}
Ipv4StreamLens ==
    {0, 1, 3, 8, 11, 19, 24, 60} \cup {20 + k : k \in 0..(MaxData + MaxExtra)}

\* the first n bytes of a header followed by filler
Ipv4Stream(b0, b1, tl, id, fl, ck, n) ==
    SubSeq(Ipv4HeaderBytes(b0, b1, tl, id, fl, 64, 17, ck, AddrA, AddrB) \o Fill(41), 1, n)

\* data lengths around the largest one the total-length field can carry
BigDataLens == {65515, 65516, 65535, 65536}

Ipv4Fields(dscp, ecn, id, ttl, dst, data) ==
    [tag |-> "ipv4", dscp |-> dscp, ecn |-> ecn, identification |-> id,
     ttl |-> ttl, protocol |-> 17, source |-> AddrA, destination |-> dst,
     data |-> data]

Ipv4Packets ==
    { Ipv4Fields(dscp, ecn, id, ttl, dst, Fill(k)) :
        dscp \in {0, 46, 63, 64, 200}, ecn \in {0, 3, 4}, id \in IdSet \cup {65535},
        ttl \in {8, 64}, dst \in {AddrB, AddrC}, k \in 0..MaxData }
    \cup { Ipv4Fields(46, 1, 4660, 64, AddrB, Zeros(k)) : k \in BigDataLens }

ArpStream(hw_type, protocol_type, hw_length, protocol_length, op, n) ==
    SubSeq(to_be_bytes16(hw_type) \o to_be_bytes16(protocol_type)
           \o <<hw_length, protocol_length>> \o to_be_bytes16(op)
           \o MacB \o to_be_bytes32(AddrA) \o MacA \o to_be_bytes32(AddrB)
           \o Fill(MaxExtra), 1, n)

ArpStreamLens == {0, 5, 6, 7, 8, 27} \cup {28 + k : k \in 0..MaxExtra}

ArpPackets ==
    [tag : {"arp"}, operation : {"Request", "Reply"},
     sender_hw_address : {MacA, MacB}, sender_protocol_address : {AddrA, <<0, 0>>},
     target_hw_address : {MacB, Zeros(6)},
     target_protocol_address : {AddrB, <<65535, 65535>>}]

EthTypeSet == {0, 1, 4, 5, 1535, 1536, 2053, IPV4, ARP, IPV6, 65535}

\* what follows the 14-byte frame header in a generated stream
EthRests ==
    { Fill(k) : k \in {0, 3, 4, 5, 6, 1534, 1535, 1539} }
    \cup UNION { { Ipv4Stream(b0, 0, tl, 4660, fl, ck, n) :
                     ck \in ChecksumChoices(b0, 0, tl, 4660, fl, 64, 17, AddrA, AddrB) } :
                 b0 \in {69, 64, 70}, tl \in {20, 20 + MaxData}, fl \in {16384, 0},
                 n \in {19, 20, 20 + MaxData, 24 + MaxData} }
    \cup { ArpStream(hw_type, IPV4, hw_length, 4, op, 28) \o Fill(k) :
             hw_type \in {1, 6}, hw_length \in {6, 8}, op \in {1, 2, 3}, k \in {0, 4} }
    \cup { ArpStream(1, IPV4, 6, 4, 1, 27) }

EthStreams == { MacA \o MacB \o to_be_bytes16(t) \o r : t \in EthTypeSet, r \in EthRests }

Unknown(bytes) == [tag |-> "unknown", bytes |-> bytes]

EthPayloads ==
    { Unknown(Fill(k)) : k \in {0, 1, 4, 5, 1535, 1536} }
    \cup { Ipv4Fields(dscp, ecn, 4660, 64, AddrB, Fill(k)) :
             dscp \in {0, 63, 64}, ecn \in {0, 4}, k \in 0..MaxData }
    \cup { p \in ArpPackets : p.sender_hw_address = MacA /\ p.sender_protocol_address = AddrA }

EthFrames ==
    [tag : {"eth"}, dst : {<<7, 8, 9, 10, 11, 12>>}, src : {MacA},
     ethtype : EthTypeSet, payload : EthPayloads]

\* the baud rates handed to VirtSerBuilder::set_baud_rate
BaudRates == {"B9600", "B115200"}

\* the two runs of the binary whose k-th iterations are compared
Runs == {1, 2}

\* the frames the tun device delivers to recv: a length-5 frame with its 5
\* payload bytes, the same header with only 3 of them, a complete ARP
\* request, an ARP frame cut behind its operation field, and 6 bytes
DeviceFrames ==
    { MacA \o MacB \o <<0, 5>> \o <<171, 205, 239, 18, 52>>,
      MacA \o MacB \o <<0, 5>> \o <<9, 8, 7>>,
      MacA \o MacB \o to_be_bytes16(ARP) \o ArpStream(1, IPV4, 6, 4, 1, 28),
      MacA \o MacB \o to_be_bytes16(ARP) \o ArpStream(1, IPV4, 6, 4, 2, 8),
      MacB }

----------------------------------------------------------------------------
(* State machine.  The caller starts with an input (a byte stream for a    *)
(* decoder, a value for an encoder) and calls the codec on it; after that   *)
(* each step is one more call on what the previous call produced (the       *)
(* tests decode what they have just encoded and encode what they have just  *)
(* decoded).                                                                *)

\* main is not running: no receive buffer exists
NoBuffer == [r \in Runs |-> <<>>]

\* the caller holds stream s and is about to call decoder op
GivenStream(op, s) ==
    /\ reader = s
    /\ packet = NoPacket
    /\ todo = op
    /\ buf = NoBuffer

\* the caller holds value p and is about to call encoder op
GivenValue(op, p) ==
    /\ reader = <<>>
    /\ packet = p
    /\ todo = op
    /\ buf = NoBuffer

\* the caller has VirtSerBuilder::new() in hand
GivenBuilder ==
    /\ reader = <<>>
    /\ packet = NoPacket
    /\ todo = "VirtSerBuilder"
    /\ buf = NoBuffer

\* main has opened the device and zeroed its buffer
GivenDevice ==
    /\ reader = <<>>
    /\ packet = NoPacket
    /\ todo = "main"
    /\ buf = [r \in Runs |-> Zeros(BUF_SIZE)]

Init ==
    /\ pos = 0
    /\ writer = <<>>
    /\ result = "none"
    /\ last = "new"
    /\ depth = 0
    /\ sent = NoPacket
    /\ builder = VirtSerBuilder_new
    /\ calls = <<>>
    /\ pty = NoPty
    /\ delivered = [r \in Runs |-> <<>>]
    /\ printed = [r \in Runs |-> [res |-> "none", pkt |-> NoPacket]]
    /\ received = 0
    /\ \/ GivenBuilder
       \/ GivenDevice
       \/ \E b0 \in VerIhlSet, b1 \in DscpEcnSet, tl \in TotalLengthSet, id \in IdSet,
             fl \in FlagsSet, n \in Ipv4StreamLens :
            \E ck \in ChecksumChoices(b0, b1, tl, id, fl, 64, 17, AddrA, AddrB) :
               GivenStream("Ipv4Packet::from_reader", Ipv4Stream(b0, b1, tl, id, fl, ck, n))
       \/ \E p \in Ipv4Packets : GivenValue("Ipv4Packet::onto_writer", p)
       \/ \E hw_type \in {1, 6, 256}, protocol_type \in {IPV4, ARP}, hw_length \in {6, 8},
             protocol_length \in {4, 16}, op \in {0, 1, 2, 3, 256}, n \in ArpStreamLens :
            GivenStream("ArpPacket::from_reader",
                        ArpStream(hw_type, protocol_type, hw_length, protocol_length, op, n))
       \/ \E p \in ArpPackets : GivenValue("ArpPacket::onto_writer", p)
       \/ \E s \in EthStreams : GivenStream("EthFrame::from_reader", s)
       \/ \E f \in EthFrames : GivenValue("EthFrame::onto_writer", f)

\* a decoder has run on stream s with outcome d
Decoded(op, d, s, chained) ==
    /\ reader' = s
    /\ pos' = d.pos
    /\ packet' = d.pkt
    /\ result' = d.res
    /\ last' = op
    /\ depth' = IF chained THEN depth + 1 ELSE 0
    /\ sent' = IF chained THEN packet ELSE NoPacket
    /\ todo' = ""
    /\ UNCHANGED writer
    /\ UNCHANGED <<virtser_vars, main_vars>>

\* an encoder has run on value p with outcome o
Encoded(op, o, p, chained) ==
    /\ packet' = p
    /\ writer' = o.bytes
    /\ result' = o.res
    /\ last' = op
    /\ depth' = IF chained THEN depth + 1 ELSE 0
    /\ todo' = ""
    /\ UNCHANGED <<reader, pos, sent>>
    /\ UNCHANGED <<virtser_vars, main_vars>>

\* the previous call was op, it succeeded, and the chain may go on
After(op) == todo = "" /\ last = op /\ result = "ok" /\ depth < MaxChain

Ipv4FromReader ==
    \/ /\ todo = "Ipv4Packet::from_reader"
       /\ Decoded("Ipv4Packet::from_reader", Ipv4Packet_from_reader(reader), reader, FALSE)
    \/ /\ After("Ipv4Packet::onto_writer")
       /\ Decoded("Ipv4Packet::from_reader", Ipv4Packet_from_reader(writer), writer, TRUE)

Ipv4OntoWriter ==
    \/ /\ todo = "Ipv4Packet::onto_writer"
       /\ \E o \in Ipv4Packet_onto_writer(packet) :
             Encoded("Ipv4Packet::onto_writer", o, packet, FALSE)
    \/ /\ After("Ipv4Packet::from_reader")
       /\ \E o \in Ipv4Packet_onto_writer(packet) :
             Encoded("Ipv4Packet::onto_writer", o, packet, TRUE)

ArpFromReader ==
    \/ /\ todo = "ArpPacket::from_reader"
       /\ Decoded("ArpPacket::from_reader", ArpPacket_from_reader(reader), reader, FALSE)
    \/ /\ After("ArpPacket::onto_writer")
       /\ Decoded("ArpPacket::from_reader", ArpPacket_from_reader(writer), writer, TRUE)

ArpOntoWriter ==
    \/ /\ todo = "ArpPacket::onto_writer"
       /\ \E o \in ArpPacket_onto_writer(packet) :
             Encoded("ArpPacket::onto_writer", o, packet, FALSE)
    \/ /\ After("ArpPacket::from_reader")
       /\ \E o \in ArpPacket_onto_writer(packet) :
             Encoded("ArpPacket::onto_writer", o, packet, TRUE)

EthFromReader ==
    \/ /\ todo = "EthFrame::from_reader"
       /\ Decoded("EthFrame::from_reader", EthFrame_from_reader(reader), reader, FALSE)
    \/ /\ After("EthFrame::onto_writer")
       /\ Decoded("EthFrame::from_reader", EthFrame_from_reader(writer), writer, TRUE)

EthOntoWriter ==
    \/ /\ todo = "EthFrame::onto_writer"
       /\ \E o \in EthFrame_onto_writer(packet) :
             Encoded("EthFrame::onto_writer", o, packet, FALSE)
    \/ /\ After("EthFrame::from_reader")
       /\ \E o \in EthFrame_onto_writer(packet) :
             Encoded("EthFrame::onto_writer", o, packet, TRUE)

\* a setter of the builder was called: the builder is returned changed
Configured(method, arg, b) ==
    /\ builder' = b
    /\ calls' = Append(calls, <<method, arg>>)
    /\ UNCHANGED <<pty, todo, codec_vars, main_vars>>

\* VirtSerBuilder::set_baud_rate
VirtSerBuilder_set_baud_rate ==
    /\ todo = "VirtSerBuilder"
    /\ Len(calls) < MaxCalls
    /\ \E baud_rate \in BaudRates :
          Configured("set_baud_rate", baud_rate, [builder EXCEPT !.baud_rate = baud_rate])

\* VirtSerBuilder::set_echo
VirtSerBuilder_set_echo ==
    /\ todo = "VirtSerBuilder"
    /\ Len(calls) < MaxCalls
    /\ \E echo \in BOOLEAN :
          Configured("set_echo", echo, [builder EXCEPT !.echo = echo])

\* VirtSerBuilder::set_raw
VirtSerBuilder_set_raw ==
    /\ todo = "VirtSerBuilder"
    /\ Len(calls) < MaxCalls
    /\ \E raw \in BOOLEAN :
          Configured("set_raw", raw, [builder EXCEPT !.raw = raw])

\* VirtSerBuilder::build: openpty, then set_raw on the master, and set_raw,
\* set_echo and set_baud_rate on the slave, in this order
VirtSerBuilder_build ==
    /\ todo = "VirtSerBuilder"
    /\ pty' = [tag |-> "pty",
               master |-> set_raw(DefaultTermios, builder.raw),
               slave |-> set_baud_rate(
                            set_echo(set_raw(DefaultTermios, builder.raw), builder.echo),
                            builder.baud_rate)]
    /\ calls' = Append(calls, <<"build", TRUE>>)
    /\ todo' = ""
    /\ UNCHANGED <<builder, codec_vars, main_vars>>

\* one iteration of main's loop, in both runs: recv into the buffer, decode
\* the buffer, print the outcome
MainLoop ==
    /\ todo = "main"
    /\ received < MaxRecv
    /\ \E frames \in [Runs -> DeviceFrames] :
          /\ delivered' = frames
          /\ buf' = [r \in Runs |-> recv(buf[r], frames[r])]
          /\ printed' = [r \in Runs |-> decode_and_print(recv(buf[r], frames[r]))]
    /\ received' = received + 1
    /\ UNCHANGED <<todo, codec_vars, virtser_vars>>

\* dev.recv fails and main returns the error
MainRecvFails ==
    /\ todo = "main"
    /\ todo' = ""
    /\ UNCHANGED <<codec_vars, virtser_vars, main_vars>>

Next ==
    \/ Ipv4FromReader
    \/ Ipv4OntoWriter
    \/ ArpFromReader
    \/ ArpOntoWriter
    \/ EthFromReader
    \/ EthOntoWriter
    \/ VirtSerBuilder_set_baud_rate
    \/ VirtSerBuilder_set_echo
    \/ VirtSerBuilder_set_raw
    \/ VirtSerBuilder_build
    \/ MainLoop
    \/ MainRecvFails

Spec == Init /\ [][Next]_vars

----------------------------------------------------------------------------
(* Properties *)

\* C1: EthFrame decode dispatches on the type/length field T read after the
\* two addresses: T = 0 gives an empty Opaque payload; 1 <= T <= 1535 gives
\* an Opaque payload of exactly the next T bytes (and fails when fewer are
\* left); T = 0x0800 gives what the IPv4 decoder gives on the rest of the
\* stream; T = 0x0806 gives what the ARP decoder gives on it; every other T
\* fails with the unsupported-ethertype error and returns no frame.
C1_EthertypeDispatch ==
    (last = "EthFrame::from_reader" /\ Len(reader) >= 14) =>
        LET T      == reader[13] * 256 + reader[14]
            stream == SubSeq(reader, 15, Len(reader))
        IN  /\ result = "ok" =>
                 /\ packet.dst = SubSeq(reader, 1, 6)
                 /\ packet.src = SubSeq(reader, 7, 12)
                 /\ packet.ethtype = T
            /\ T = 0 => result = "ok" /\ packet.payload = [tag |-> "unknown", bytes |-> <<>>]
            /\ (T \in 1..1535 /\ Len(stream) >= T) =>
                 /\ result = "ok"
                 /\ packet.payload = [tag |-> "unknown", bytes |-> SubSeq(stream, 1, T)]
            /\ (T \in 1..1535 /\ Len(stream) < T) => result = "UnexpectedEof"
            /\ T = 2048 =>
                 /\ result = Ipv4Packet_from_reader(stream).res
                 /\ result = "ok" => packet.payload = Ipv4Packet_from_reader(stream).pkt
            /\ T = 2054 =>
                 /\ result = ArpPacket_from_reader(stream).res
                 /\ result = "ok" => packet.payload = ArpPacket_from_reader(stream).pkt
            /\ (T >= 1536 /\ T # 2048 /\ T # 2054) =>
                 result = "EthUnknownType" /\ packet = NoPacket

\* a frame with type/length 5 was decoded to an Opaque payload of 5 bytes,
\* with more bytes behind it in the stream
C1_Witness ==
    /\ last = "EthFrame::from_reader"
    /\ result = "ok"
    /\ packet.ethtype = 5
    /\ Len(packet.payload.bytes) = 5
    /\ Len(reader) > 19

\* the packets the IPv4 encoder is specified for
ValidIpv4(p) == p.dscp <= 63 /\ p.ecn <= 3 /\ Len(p.data) <= 65515

\* C2: for every valid Ipv4Packet p, encode(p) succeeds, decoding its bytes
\* succeeds and returns p, and encoding the decoded packet again gives the
\* same bytes.
C2_Ipv4RoundTrip ==
    /\ (last = "Ipv4Packet::onto_writer" /\ depth = 0 /\ ValidIpv4(packet)) =>
          result = "ok"
    /\ (last = "Ipv4Packet::from_reader" /\ depth = 1 /\ ValidIpv4(sent)) =>
          result = "ok" /\ packet = sent /\ pos = Len(reader)
    /\ (last = "Ipv4Packet::onto_writer" /\ depth = 2 /\ ValidIpv4(sent)) =>
          result = "ok" /\ packet = sent /\ writer = reader

\* a valid packet with DSCP 63, ECN 3 and data was encoded, decoded and
\* encoded again
C2_Witness ==
    /\ last = "Ipv4Packet::onto_writer"
    /\ depth = 2
    /\ result = "ok"
    /\ sent.dscp = 63
    /\ sent.ecn = 3
    /\ Len(sent.data) > 0

\* C3: for every ArpPacket p, encode(p) is the 28 bytes hwType=1,
\* protoType=0x0800, hwLen=6, protoLen=4, operation, senderHw, senderProto,
\* targetHw, targetProto, and decoding them succeeds and returns p.
C3_ArpRoundTrip ==
    /\ last = "ArpPacket::onto_writer" =>
          /\ result = "ok"
          /\ Len(writer) = 28
          /\ SubSeq(writer, 1, 8) =
                <<0, 1, 8, 0, 6, 4, 0, IF packet.operation = "Request" THEN 1 ELSE 2>>
          /\ SubSeq(writer, 9, 14) = packet.sender_hw_address
          /\ <<writer[15] * 256 + writer[16], writer[17] * 256 + writer[18]>>
                = packet.sender_protocol_address
          /\ SubSeq(writer, 19, 24) = packet.target_hw_address
          /\ <<writer[25] * 256 + writer[26], writer[27] * 256 + writer[28]>>
                = packet.target_protocol_address
    /\ (last = "ArpPacket::from_reader" /\ depth >= 1) =>
          result = "ok" /\ packet = sent /\ pos = 28

\* a Reply was encoded and decoded again
C3_Witness ==
    /\ last = "ArpPacket::from_reader"
    /\ depth = 1
    /\ result = "ok"
    /\ sent.operation = "Reply"
    /\ sent.target_protocol_address = <<65535, 65535>>

\* the type/length field of f agrees with its payload
ConsistentFrame(f) ==
    \/ f.payload.tag = "unknown" /\ Len(f.payload.bytes) <= 1535
                                 /\ f.ethtype = Len(f.payload.bytes)
    \/ f.payload.tag = "ipv4" /\ ValidIpv4(f.payload) /\ f.ethtype = 2048
    \/ f.payload.tag = "arp" /\ f.ethtype = 2054

\* C4: for every EthFrame f whose type/length field agrees with its payload,
\* encode(f) succeeds and decoding its bytes succeeds and returns f.
C4_EthRoundTrip ==
    /\ (last = "EthFrame::onto_writer" /\ depth = 0 /\ ConsistentFrame(packet)) =>
          result = "ok"
    /\ (last = "EthFrame::from_reader" /\ depth = 1 /\ ConsistentFrame(sent)) =>
          result = "ok" /\ packet = sent

\* a frame carrying an IPv4 packet with data was encoded and decoded again
C4_Witness ==
    /\ last = "EthFrame::from_reader"
    /\ depth = 1
    /\ result = "ok"
    /\ sent.payload.tag = "ipv4"
    /\ Len(sent.payload.data) > 0

\* C5 as stated: for every byte sequence the IPv4 decoder accepts, encoding
\* the decoded packet reproduces exactly the bytes the decoder consumed.
C5_ReencodeReproducesInput ==
    (last = "Ipv4Packet::onto_writer" /\ depth >= 1) =>
        result = "ok" /\ writer = SubSeq(reader, 1, pos)

\* C5 as amended: for every byte sequence the IPv4 decoder accepts whose
\* first byte is 0x45 (IHL nibble 5, not 0) and whose checksum field is not
\* 0xFFFF, encoding the decoded packet reproduces exactly the bytes the
\* decoder consumed.
C5_ReencodeReproducesCanonicalInput ==
    (/\ last = "Ipv4Packet::onto_writer"
     /\ depth >= 1
     /\ reader[1] = 69
     /\ reader[11] * 256 + reader[12] # 65535) =>
        result = "ok" /\ writer = SubSeq(reader, 1, pos)

\* an accepted stream with payload and a byte behind the packet was decoded
\* and the packet encoded again
C5_Witness ==
    /\ last = "Ipv4Packet::onto_writer"
    /\ depth = 1
    /\ result = "ok"
    /\ reader[1] = 69
    /\ pos > 20
    /\ Len(reader) > pos

\* the acceptance condition of C6, read off the stream
Ipv4Acceptable(s) ==
    /\ Len(s) >= 20
    /\ s[1] \div 16 = 4
    /\ s[1] % 16 \in {0, 5}
    /\ s[3] * 256 + s[4] >= 20
    /\ s[7] * 256 + s[8] = 16384
    /\ InternetChecksum(SubSeq(s, 1, 20)) = 0
    /\ Len(s) >= s[3] * 256 + s[4]

\* C6: Ipv4Packet decode returns a packet if and only if the version nibble
\* is 4, the IHL nibble is 0 or 5, the total length is at least 20, the
\* flags/fragment-offset field is exactly 0x4000, the Internet checksum over
\* the first 20 bytes is zero and at least total-length bytes are available.
C6_Ipv4AcceptsExactly ==
    last = "Ipv4Packet::from_reader" =>
        /\ result = "ok" <=> Ipv4Acceptable(reader)
        /\ result = "ok" <=> packet # NoPacket

\* a header with IHL nibble 0 was accepted
C6_Witness ==
    /\ last = "Ipv4Packet::from_reader"
    /\ result = "ok"
    /\ reader[1] = 64
    /\ Len(packet.data) > 0

\* the sizes of the pieces Ipv4Packet::from_reader feeds to the accumulator
HeaderPieces == <<1, 1, 2, 2, 2, 1, 1, 2, 4, 4>>

\* the accumulator after the bytes of s have been fed to it in pieces
RECURSIVE FeedPieces(_, _, _)
FeedPieces(h, s, sizes) ==
    IF Len(sizes) = 0 THEN h
    ELSE FeedPieces(add_bytes(h, SubSeq(s, 1, Head(sizes))),
                    SubSeq(s, Head(sizes) + 1, Len(s)), Tail(sizes))

\* C7: for every packet decode returns, the Internet checksum over the 20
\* header bytes as received is zero; and feeding a header to the accumulator
\* field by field gives the same checksum as one pass over its 20 bytes.
C7_ChecksumInvariant ==
    last = "Ipv4Packet::from_reader" =>
        /\ result = "ok" => InternetChecksum(SubSeq(reader, 1, 20)) = 0
        /\ Len(reader) >= 20 =>
              checksum(FeedPieces(NewChecksum, SubSeq(reader, 1, 20), HeaderPieces))
                 = to_be_bytes16(InternetChecksum(SubSeq(reader, 1, 20)))

\* a header whose checksum field is 0xFFFF was accepted
C7_Witness ==
    /\ last = "Ipv4Packet::from_reader"
    /\ depth = 0
    /\ result = "ok"
    /\ reader[11] = 255
    /\ reader[12] = 255

\* C8 as stated: every IPv4 header with version 4 and IHL nibble >= 6 is
\* rejected as malformed with exactly 4*IHL bytes consumed (here only for
\* streams that hold the whole header).
C8_OptionsAlwaysDrained ==
    (/\ last = "Ipv4Packet::from_reader"
     /\ Len(reader) >= 1
     /\ reader[1] \div 16 = 4
     /\ reader[1] % 16 >= 6
     /\ Len(reader) >= 4 * (reader[1] % 16)) =>
        result = "Ipv4OptionsNotSupported" /\ pos = 4 * (reader[1] % 16)

\* C8 as amended: every IPv4 header with version 4 and IHL nibble >= 6 is
\* rejected; when the stream holds the 4*IHL header bytes the error is a
\* malformed-IPv4 error: bad total length after 4 bytes when the total
\* length is below 4*IHL, else unsupported fragmentation after 8 bytes when
\* the flags/fragment-offset field is not 0x4000, else options unsupported
\* with the options drained, exactly 4*IHL bytes consumed.
C8_OptionsRejected ==
    (/\ last = "Ipv4Packet::from_reader"
     /\ Len(reader) >= 1
     /\ reader[1] \div 16 = 4
     /\ reader[1] % 16 >= 6) =>
        LET hl == 4 * (reader[1] % 16) IN
        /\ result # "ok"
        /\ packet = NoPacket
        /\ Len(reader) >= hl =>
              IF reader[3] * 256 + reader[4] < hl
                THEN result = "Ipv4BadLength" /\ pos = 4
              ELSE IF reader[7] * 256 + reader[8] # 16384
                THEN result = "Ipv4Fragmenting" /\ pos = 8
              ELSE result = "Ipv4OptionsNotSupported" /\ pos = hl

\* a header with IHL 6 was rejected after its 4 option bytes were read,
\* with bytes left in the stream
C8_Witness ==
    /\ last = "Ipv4Packet::from_reader"
    /\ result = "Ipv4OptionsNotSupported"
    /\ reader[1] = 70
    /\ pos = 24
    /\ Len(reader) > 24

\* the first fixed field of an ARP stream that is wrong, in the order
\* hardware type, protocol type, hardware length, protocol length
FirstArpMismatch(s) ==
    IF s[1] * 256 + s[2] # 1 THEN "ArpHardwareType"
    ELSE IF s[3] * 256 + s[4] # 2048 THEN "ArpProtocolType"
    ELSE IF s[5] # 6 THEN "ArpHardwareLength"
    ELSE IF s[6] # 4 THEN "ArpProtocolLength"
    ELSE "none"

\* C9: ArpPacket decode returns no packet when the hardware type is not 1,
\* the protocol type not 0x0800, the hardware length not 6, the protocol
\* length not 4 or the operation not 1 or 2; when the first 6 bytes are
\* present a fixed-field mismatch is reported as the failure of the first
\* mismatching field, before the operation or any address byte is read.
C9_ArpRejects ==
    last = "ArpPacket::from_reader" =>
        /\ result = "ok" =>
              /\ FirstArpMismatch(reader) = "none"
              /\ reader[7] * 256 + reader[8] \in {1, 2}
        /\ result # "ok" => packet = NoPacket
        /\ (Len(reader) >= 6 /\ FirstArpMismatch(reader) # "none") =>
              result = FirstArpMismatch(reader) /\ pos = 6
        /\ (Len(reader) >= 8 /\ FirstArpMismatch(reader) = "none"
               /\ reader[7] * 256 + reader[8] \notin {1, 2}) =>
              result = "ArpInvalidOperation"

\* a complete packet with a wrong hardware length and a wrong protocol
\* length was rejected for its hardware length
C9_Witness ==
    /\ last = "ArpPacket::from_reader"
    /\ result = "ArpHardwareLength"
    /\ reader[6] # 4
    /\ Len(reader) >= 28
    /\ pos = 6

\* C10 as stated: Ipv4Packet encode returns an error value, neither
\* panicking nor emitting a header, whenever ECN > 3, DSCP > 63 or the data
\* is longer than 65515 bytes.
C10_OutOfRangeIsAnError ==
    (/\ last = "Ipv4Packet::onto_writer"
     /\ depth = 0
     /\ \/ packet.ecn > 3
        \/ packet.dscp > 63
        \/ Len(packet.data) > 65515) =>
        result \notin {"ok", "panic"}

\* C11: on success EthFrame encode writes exactly destination (6), source
\* (6), the type/length field (2, big-endian), the payload's own encoding
\* and then 4 bytes holding the big-endian CRC-32 of all the bytes before
\* them; the output is 18 bytes longer than the payload encoding.
C11_EthEncodeLayout ==
    (last = "EthFrame::onto_writer" /\ result = "ok") =>
        LET n == Len(writer) IN
        /\ n >= 18
        /\ SubSeq(writer, 1, 6) = packet.dst
        /\ SubSeq(writer, 7, 12) = packet.src
        /\ writer[13] * 256 + writer[14] = packet.ethtype
        /\ \E o \in Layer3Packet_onto_writer(packet.payload) :
              /\ o.res = "ok"
              /\ n = 18 + Len(o.bytes)
              /\ SubSeq(writer, 15, n - 4) = o.bytes
        /\ packet.payload.tag = "unknown" =>
              SubSeq(writer, 15, n - 4) = packet.payload.bytes
        /\ SubSeq(writer, n - 3, n) = to_be_bytes32(Crc32(SubSeq(writer, 1, n - 4)))

\* a frame carrying an IPv4 packet with data was encoded
C11_Witness ==
    /\ last = "EthFrame::onto_writer"
    /\ result = "ok"
    /\ packet.payload.tag = "ipv4"
    /\ Len(packet.payload.data) > 0
    /\ Len(writer) = 38 + Len(packet.payload.data)

\* C12: a successful EthFrame decode consumes exactly 14 + L bytes, L being
\* the type/length value when it is <= 1535, 28 for ARP and the IPv4
\* total-length field for IPv4; the bytes behind them are not read (the
\* outcome is that of decoding the consumed prefix alone), so decoding the
\* output of EthFrame encode leaves exactly the 4 CRC bytes, whose value
\* does not matter.
C12_EthDecodeConsumes ==
    (last = "EthFrame::from_reader" /\ result = "ok") =>
        LET T == reader[13] * 256 + reader[14]
            L == IF T <= 1535 THEN T
                 ELSE IF T = 2054 THEN 28
                 ELSE reader[17] * 256 + reader[18]
            consumed == SubSeq(reader, 1, pos)
        IN  /\ pos = 14 + L
            /\ pos <= Len(reader)
            /\ EthFrame_from_reader(consumed) =
                  [res |-> "ok", pkt |-> packet, pos |-> pos]
            /\ (depth >= 1 /\ ConsistentFrame(sent)) =>
                  /\ Len(reader) = pos + 4
                  /\ EthFrame_from_reader(consumed \o <<0, 0, 0, 0>>) =
                        [res |-> "ok", pkt |-> packet, pos |-> pos]

\* an encoded ARP frame was decoded: 42 bytes consumed, 4 left
C12_Witness ==
    /\ last = "EthFrame::from_reader"
    /\ depth = 1
    /\ result = "ok"
    /\ sent.payload.tag = "arp"
    /\ pos = 42
    /\ Len(reader) = 46

\* C15: every frame EthFrame decode returns has a payload that agrees with
\* its type/length field: Opaque of exactly that many bytes exactly when the
\* field is <= 1535, an Ipv4Packet exactly when it is 0x0800, an ArpPacket
\* exactly when it is 0x0806, and no frame carries any other value.
C15_TypePayloadConsistent ==
    (last = "EthFrame::from_reader" /\ result = "ok") =>
        /\ packet.ethtype \in (0..1535) \cup {2048, 2054}
        /\ packet.payload.tag = "unknown" <=> packet.ethtype <= 1535
        /\ packet.payload.tag = "unknown" =>
              Len(packet.payload.bytes) = packet.ethtype
        /\ packet.payload.tag = "ipv4" <=> packet.ethtype = 2048
        /\ packet.payload.tag = "arp" <=> packet.ethtype = 2054

\* a frame with type 0x0800 was decoded from a stream with bytes behind the
\* packet
C15_Witness ==
    /\ last = "EthFrame::from_reader"
    /\ depth = 0
    /\ result = "ok"
    /\ packet.ethtype = 2048
    /\ packet.payload.tag = "ipv4"
    /\ Len(reader) > pos

\* C16: when encoding the payload fails, EthFrame encode returns that error
\* and the sink has received nothing; the sink receives bytes only from a
\* call that succeeds, and then the whole frame with its CRC.
C16_SinkAllOrNothing ==
    last = "EthFrame::onto_writer" =>
        /\ (\A o \in Layer3Packet_onto_writer(packet.payload) : o.res # "ok") =>
              /\ result # "ok"
              /\ \E o \in Layer3Packet_onto_writer(packet.payload) : result = o.res
        /\ result # "ok" => writer = <<>>
        /\ writer # <<>> =>
              /\ result = "ok"
              /\ Len(writer) >= 18
              /\ SubSeq(writer, Len(writer) - 3, Len(writer)) =
                    to_be_bytes32(Crc32(SubSeq(writer, 1, Len(writer) - 4)))

\* a frame whose IPv4 payload has ECN 4 was refused, the payload encoder
\* having already written its first byte to the Vec
C16_Witness ==
    /\ last = "EthFrame::onto_writer"
    /\ result = "Ipv4InvalidEcn"
    /\ packet.payload.tag = "ipv4"
    /\ packet.payload.ecn = 4
    /\ \E o \in Ipv4Packet_onto_writer(packet.payload) : Len(o.bytes) = 1

\* the argument of the last set_echo call made on the builder, as a set:
\* empty when set_echo was never called
RECURSIVE LastEcho(_)
LastEcho(cs) ==
    IF Len(cs) = 0 THEN {}
    ELSE IF cs[Len(cs)][1] = "set_echo" THEN {cs[Len(cs)][2]}
    ELSE LastEcho(SubSeq(cs, 1, Len(cs) - 1))

\* C13 as stated: after set_echo(e) followed by build(), the ECHO flag of
\* the slave terminal equals e, whatever was given to set_raw.
C13_EchoFollowsSetEcho ==
    pty # NoPty =>
        \A e \in LastEcho(calls) : ("ECHO" \in pty.slave.lflags) <=> e

\* C14 as stated: the outcome printed for the k-th frame depends only on
\* the bytes delivered for it (two runs given the same k-th frame print the
\* same outcome, whatever they received before), and a frame that ends
\* before its declared length is printed as a failure.
C14_DecodeDependsOnlyOnFrame ==
    received >= 1 =>
        /\ delivered[1] = delivered[2] => printed[1] = printed[2]
        /\ \A r \in Runs :
              EthFrame_from_reader(delivered[r]).res = "UnexpectedEof" =>
                 printed[r].res # "ok"

====
